---------------------------- MODULE Spec2Model ----------------------------
(***************************************************************************)
(* DeepSeek-OCR inference engine (src/app/model_engine.py) and the parts   *)
(* of the API server (src/app/api_server.py) that drive it.                *)
(*                                                                         *)
(* ModelManager keeps three class attributes (_model, _tokenizer,          *)
(* _loading_error) that every caller shares.  None of its methods takes a  *)
(* lock, so each attribute read and write is a step of its own and the     *)
(* steps of different callers interleave.                                  *)
(*                                                                         *)
(* Processes: Handler is the request handler of the server, the only       *)
(* caller of run_inference (chat_completions is a coroutine that calls     *)
(* run_inference synchronously, so the event loop runs one at a time);     *)
(* Callers are threads that call the ModelManager class methods directly.  *)
(***************************************************************************)
EXTENDS Integers, Sequences, FiniteSets, TLC

(***************************************************************************)
(* Bounds of the model.                                                    *)
(***************************************************************************)
\* Threads calling ModelManager directly, beside the request handler.
NumCallers == 1
\* Cap on the construction attempts of one behaviour.
MaxLoads == 3
\* Largest timeout (in ticks) a caller passes to run_inference; the model
\* invocation lasts between 1 and MaxTimeout + 1 ticks.
MaxTimeout == 1
\* Normalised coordinates are the multiples of 1/Den from 0 to (Den + 1)/Den,
\* the last one out of range.  Pixel coordinates are kept in units of 1/Den
\* pixel, so that the products of lines 373-376 are exact.
Den == 2
\* Longest text, in candidate tags, passed to the functions applied on their
\* own.
MaxTags == 3

Handler == 0
Callers == 1..NumCallers
Procs == {Handler} \cup Callers

(***************************************************************************)
(* Values of the class attributes.  A handle is the number of the          *)
(* construction that produced it, so the objects of two constructions are  *)
(* never taken for one another.                                            *)
(***************************************************************************)
\* Python's None as the value of _model or _tokenizer.
NoneH == 0
\* The attribute does not exist (after "del cls._model"): reading it raises
\* AttributeError.
Deleted == -1
\* Python's None as the value of _loading_error (a message is never empty).
NoError == <<>>

(***************************************************************************)
(* Exceptions are a kind (the class) and a message.  A message is the      *)
(* sequence of the prefixes the f-strings put in front of str(e), ending   *)
(* with the text of the exception that started it.                         *)
(***************************************************************************)
Wrap(prefix, msg) == <<prefix>> \o msg

\* What a finished call hands to its caller: kind "ok" with the handles, a
\* boolean for is_loaded, or an exception class with its message.
Outcome(kind, msg, m, t) == [kind |-> kind, msg |-> msg, m |-> m, t |-> t]
NoRet == Outcome("none", <<>>, NoneH, NoneH)
Raise(kind, msg) == Outcome(kind, msg, NoneH, NoneH)

VARIABLES
    model,          \* ModelManager._model
    tokenizer,      \* ModelManager._tokenizer
    loading_error,  \* ModelManager._loading_error
    nLoads,         \* constructions begun so far (entries of the try at line 68)
    pc,             \* pc[p]: where process p stands
    op,             \* op[p]: the operation p is running
    entry,          \* entry[p]: the manager's state when p's call began
    ret,            \* ret[p]: values p has read so far, then its outcome
    req,            \* the arguments of the handler's call (run_inference, or a
                    \* function applied on its own)
    img,            \* the image object passed in that call, as it is now
    res,            \* the result dictionary of the handler's run_inference
    elapsed,        \* ticks the handler's model invocation took (0: not run)
    nEmpty,         \* torch.cuda.empty_cache() calls of the handler's run_inference
    out             \* the values returned by a function applied on its own

mgr == <<model, tokenizer, loading_error>>
hvars == <<req, img, res, elapsed, nEmpty, out>>
vars == <<model, tokenizer, loading_error, nLoads, pc, op, entry, ret,
          req, img, res, elapsed, nEmpty, out>>


(***************************************************************************)
(* The texts of the messages.                                              *)
(***************************************************************************)
MsgPrevFailed == "Model loading previously failed"
MsgLoadOOM == "GPU out of memory"
MsgLoadFailed == "Failed to load model"
MsgNoAttribute == "type object 'ModelManager' has no attribute"

(***************************************************************************)
(* The readiness of the manager, read off its three attributes.            *)
(***************************************************************************)
Readiness ==
    IF model # NoneH /\ model # Deleted THEN "Ready"
    ELSE IF loading_error # NoError
      THEN IF tokenizer = NoneH THEN "Failed" ELSE "FailedWithTokenizer"
    ELSE IF model = NoneH /\ tokenizer = NoneH THEN "Unloaded"
    ELSE "Partial"

FailedStates == {"Failed", "FailedWithTokenizer"}

(***************************************************************************)
(* Calls and returns.                                                      *)
(***************************************************************************)
\* p begins operation o at its first step, first.
Begin(p, o, first) ==
    /\ pc[p] = "idle"
    /\ pc' = [pc EXCEPT ![p] = first]
    /\ op' = [op EXCEPT ![p] = o]
    /\ entry' = [entry EXCEPT ![p] = Readiness]

\* get_model ends with outcome o: inside run_inference the handler goes on
\* at line 248, any other caller has its result.
Finish(p, o) ==
    /\ pc' = [pc EXCEPT ![p] = IF op[p] = "run_inference" THEN "ri_got" ELSE "done"]
    /\ ret' = [ret EXCEPT ![p] = o]
    /\ UNCHANGED <<op, entry>>

Goto(p, next) ==
    /\ pc' = [pc EXCEPT ![p] = next]
    /\ UNCHANGED <<op, entry>>

\* The caller takes the outcome; p is free for its next call.
Return(p) ==
    /\ pc[p] = "done"
    /\ op[p] # "run_inference"
    /\ pc' = [pc EXCEPT ![p] = "idle"]
    /\ op' = [op EXCEPT ![p] = "none"]
    /\ entry' = [entry EXCEPT ![p] = "none"]
    /\ ret' = [ret EXCEPT ![p] = NoRet]
    /\ UNCHANGED <<mgr, nLoads, hvars>>

(***************************************************************************)
(* ModelManager.get_model                                                  *)
(***************************************************************************)
CallGetModel(p) ==
    /\ Begin(p, "get_model", "gm_check")
    /\ UNCHANGED <<mgr, nLoads, ret>>
    /\ UNCHANGED hvars

\* A get_model without the test of line 60: it goes on to the test of the
\* cached error and to the loads whatever _model holds.
GmCheck_NoFastPath(p) ==
    /\ pc[p] = "gm_check"
    /\ Goto(p, "gm_err")
    /\ UNCHANGED <<mgr, nLoads, ret, hvars>>

\* Line 60: if cls._model is not None.
GmCheck(p) ==
    /\ pc[p] = "gm_check"
    /\ \/ /\ model = Deleted
          /\ Finish(p, Raise("AttributeError", <<MsgNoAttribute>>))
       \/ /\ model # Deleted /\ model # NoneH
          /\ Goto(p, "gm_ret_m")
          /\ UNCHANGED ret
       \/ /\ model = NoneH
          /\ Goto(p, "gm_err")
          /\ UNCHANGED ret
    /\ UNCHANGED <<mgr, nLoads>>
    /\ UNCHANGED hvars

\* Line 61, return cls._model, cls._tokenizer: the read of _model.
GmRetM(p) ==
    /\ pc[p] = "gm_ret_m"
    /\ \/ /\ model = Deleted
          /\ Finish(p, Raise("AttributeError", <<MsgNoAttribute>>))
       \/ /\ model # Deleted
          /\ Goto(p, "gm_ret_t")
          /\ ret' = [ret EXCEPT ![p].m = model]
    /\ UNCHANGED <<mgr, nLoads>>
    /\ UNCHANGED hvars

\* Line 61: the read of _tokenizer, and the return of the pair.
GmRetT(p) ==
    /\ pc[p] = "gm_ret_t"
    /\ \/ /\ tokenizer = Deleted
          /\ Finish(p, Raise("AttributeError", <<MsgNoAttribute>>))
       \/ /\ tokenizer # Deleted
          /\ Finish(p, Outcome("ok", <<>>, ret[p].m, tokenizer))
    /\ UNCHANGED <<mgr, nLoads>>
    /\ UNCHANGED hvars

\* Lines 64-65: if cls._loading_error is not None: raise RuntimeError.
GmErr(p) ==
    /\ pc[p] = "gm_err"
    /\ \/ /\ loading_error # NoError
          /\ Finish(p, Raise("RuntimeError", Wrap(MsgPrevFailed, loading_error)))
       \/ /\ loading_error = NoError
          /\ Goto(p, "gm_tok")
          /\ UNCHANGED ret
    /\ UNCHANGED <<mgr, nLoads>>
    /\ UNCHANGED hvars

\* The except clauses of lines 104-113: cache the message, raise.
GmFail(p, kind, prefix, cause) ==
    /\ loading_error' = Wrap(prefix, <<cause>>)
    /\ Finish(p, Raise(kind, Wrap(prefix, <<cause>>)))

\* Lines 73-76: the tokenizer load.  It allocates no device memory, so a
\* failure is an ordinary exception (line 109).  ret[p].t remembers which
\* construction p is running.
GmTok(p) ==
    /\ pc[p] = "gm_tok"
    /\ nLoads < MaxLoads
    /\ nLoads' = nLoads + 1
    /\ \/ /\ tokenizer' = nLoads + 1
          /\ Goto(p, "gm_model")
          /\ ret' = [ret EXCEPT ![p].t = nLoads + 1]
          /\ UNCHANGED loading_error
       \/ /\ GmFail(p, "RuntimeError", MsgLoadFailed, "tokenizer_error")
          /\ UNCHANGED tokenizer
    /\ UNCHANGED model
    /\ UNCHANGED hvars

\* Lines 80-99: the load with Flash Attention 2 and, when that raises
\* anything at all, the load with the default attention.
GmModel(p) ==
    /\ pc[p] = "gm_model"
    /\ \/ /\ model' = ret[p].t
          /\ Goto(p, "gm_ret2_m")
          /\ UNCHANGED <<loading_error, ret>>
       \/ /\ GmFail(p, "OutOfMemoryError", MsgLoadOOM, "cuda_oom")
          /\ UNCHANGED model
       \/ /\ GmFail(p, "RuntimeError", MsgLoadFailed, "load_error")
          /\ UNCHANGED model
    /\ UNCHANGED <<tokenizer, nLoads>>
    /\ UNCHANGED hvars

\* Line 102, return cls._model, cls._tokenizer, is inside the try: a read of
\* a deleted attribute is caught at line 109.
GmRet2M(p) ==
    /\ pc[p] = "gm_ret2_m"
    /\ \/ /\ model = Deleted
          /\ GmFail(p, "RuntimeError", MsgLoadFailed, MsgNoAttribute)
       \/ /\ model # Deleted
          /\ Goto(p, "gm_ret2_t")
          /\ ret' = [ret EXCEPT ![p].m = model]
          /\ UNCHANGED loading_error
    /\ UNCHANGED <<model, tokenizer, nLoads>>
    /\ UNCHANGED hvars

GmRet2T(p) ==
    /\ pc[p] = "gm_ret2_t"
    /\ \/ /\ tokenizer = Deleted
          /\ GmFail(p, "RuntimeError", MsgLoadFailed, MsgNoAttribute)
       \/ /\ tokenizer # Deleted
          /\ Finish(p, Outcome("ok", <<>>, ret[p].m, tokenizer))
          /\ UNCHANGED loading_error
    /\ UNCHANGED <<model, tokenizer, nLoads>>
    /\ UNCHANGED hvars

GetModel(p) ==
    \/ GmCheck(p) \/ GmRetM(p) \/ GmRetT(p) \/ GmErr(p)
    \/ GmTok(p) \/ GmModel(p) \/ GmRet2M(p) \/ GmRet2T(p)

(***************************************************************************)
(* ModelManager.is_loaded                                                  *)
(***************************************************************************)
\* An is_loaded that tests the tokenizer instead of the model.
IsLoaded_TestsTokenizer(p) ==
    /\ Begin(p, "is_loaded", "done")
    /\ ret' = [ret EXCEPT ![p] =
                 IF tokenizer = Deleted THEN Raise("AttributeError", <<MsgNoAttribute>>)
                 ELSE IF tokenizer # NoneH THEN Raise("True", <<>>)
                 ELSE Raise("False", <<>>)]
    /\ UNCHANGED <<mgr, nLoads>>
    /\ UNCHANGED hvars

\* Line 118: return cls._model is not None.  health_check (api_server.py,
\* line 129) returns this value as model_loaded.
IsLoaded(p) ==
    /\ Begin(p, "is_loaded", "done")
    /\ ret' = [ret EXCEPT ![p] =
                 IF model = Deleted THEN Raise("AttributeError", <<MsgNoAttribute>>)
                 ELSE IF model # NoneH THEN Raise("True", <<>>)
                 ELSE Raise("False", <<>>)]
    /\ UNCHANGED <<mgr, nLoads>>
    /\ UNCHANGED hvars


(***************************************************************************)
(* ModelManager.clear_cache                                                *)
(***************************************************************************)
CallClearCache(p) ==
    /\ Begin(p, "clear_cache", "cc_m")
    /\ UNCHANGED <<mgr, nLoads, ret>>
    /\ UNCHANGED hvars

\* Line 123: if cls._model is not None.
CcModel(p) ==
    /\ pc[p] = "cc_m"
    /\ IF model = Deleted
         THEN Finish(p, Raise("AttributeError", <<MsgNoAttribute>>))
         ELSE /\ Goto(p, IF model # NoneH THEN "cc_m_del" ELSE "cc_t")
              /\ UNCHANGED ret
    /\ UNCHANGED <<mgr, nLoads>>
    /\ UNCHANGED hvars

\* Line 124: del cls._model.
CcModelDel(p) ==
    /\ pc[p] = "cc_m_del"
    /\ IF model = Deleted
         THEN /\ Finish(p, Raise("AttributeError", <<MsgNoAttribute>>))
              /\ UNCHANGED model
         ELSE /\ model' = Deleted
              /\ Goto(p, "cc_m_set")
              /\ UNCHANGED ret
    /\ UNCHANGED <<tokenizer, loading_error, nLoads>>
    /\ UNCHANGED hvars

\* Line 125: cls._model = None.
CcModelSet(p) ==
    /\ pc[p] = "cc_m_set"
    /\ model' = NoneH
    /\ Goto(p, "cc_t")
    /\ UNCHANGED <<tokenizer, loading_error, nLoads, ret>>
    /\ UNCHANGED hvars

\* Line 126: if cls._tokenizer is not None.
CcTok(p) ==
    /\ pc[p] = "cc_t"
    /\ IF tokenizer = Deleted
         THEN Finish(p, Raise("AttributeError", <<MsgNoAttribute>>))
         ELSE /\ Goto(p, IF tokenizer # NoneH THEN "cc_t_del" ELSE "cc_err")
              /\ UNCHANGED ret
    /\ UNCHANGED <<mgr, nLoads>>
    /\ UNCHANGED hvars

\* Line 127: del cls._tokenizer.
CcTokDel(p) ==
    /\ pc[p] = "cc_t_del"
    /\ IF tokenizer = Deleted
         THEN /\ Finish(p, Raise("AttributeError", <<MsgNoAttribute>>))
              /\ UNCHANGED tokenizer
         ELSE /\ tokenizer' = Deleted
              /\ Goto(p, "cc_t_set")
              /\ UNCHANGED ret
    /\ UNCHANGED <<model, loading_error, nLoads>>
    /\ UNCHANGED hvars

\* Line 128: cls._tokenizer = None.
CcTokSet(p) ==
    /\ pc[p] = "cc_t_set"
    /\ tokenizer' = NoneH
    /\ Goto(p, "cc_err")
    /\ UNCHANGED <<model, loading_error, nLoads, ret>>
    /\ UNCHANGED hvars

\* A clear_cache without line 129: the cached error stays.
CcErr_KeepsError(p) ==
    /\ pc[p] = "cc_err"
    /\ Finish(p, Raise("returned", <<>>))
    /\ UNCHANGED <<mgr, nLoads, hvars>>

\* Lines 129-130: cls._loading_error = None, then torch.cuda.empty_cache().
CcErr(p) ==
    /\ pc[p] = "cc_err"
    /\ loading_error' = NoError
    /\ Finish(p, Raise("returned", <<>>))
    /\ UNCHANGED <<model, tokenizer, nLoads>>
    /\ UNCHANGED hvars

ClearCache(p) ==
    \/ CcModel(p) \/ CcModelDel(p) \/ CcModelSet(p)
    \/ CcTok(p) \/ CcTokDel(p) \/ CcTokSet(p) \/ CcErr(p)

(***************************************************************************)
(* The configuration tables.                                               *)
(***************************************************************************)
SIZE_CONFIGS ==
    [Tiny   |-> [base_size |-> 512,  image_size |-> 512,  crop_mode |-> FALSE],
     Small  |-> [base_size |-> 640,  image_size |-> 640,  crop_mode |-> FALSE],
     Base   |-> [base_size |-> 1024, image_size |-> 1024, crop_mode |-> FALSE],
     Large  |-> [base_size |-> 1280, image_size |-> 1280, crop_mode |-> FALSE],
     Gundam |-> [base_size |-> 1024, image_size |-> 640,  crop_mode |-> TRUE]]

\* A template is the pieces of its text; the piece "{ref_text}" is the slot
\* that str.format fills.
RefSlot == "{ref_text}"
TASK_PROMPTS ==
    [free_ocr     |-> <<"<image>\nFree OCR.">>,
     markdown     |-> <<"<image>\n<|grounding|>Convert the document to markdown.">>,
     parse_figure |-> <<"<image>\nParse the figure.">>,
     locate       |-> <<"<image>\nLocate <|ref|>", RefSlot, "<|/ref|> in the image.">>]

MsgInvalidTask == "Invalid task type"
MsgRefRequired == "Reference text is required for 'locate' task"
MsgInvalidSize == "Invalid model size"
MsgInvalidImage == "Invalid image: must be a PIL Image object"

\* An Optional[str] is <<>> for None and <<s>> for the string s.
NoRef == <<>>
\* Python's "not ref_text": None and the empty string are falsy.
Falsy(ref) == ref = NoRef \/ ref = <<"">>

(***************************************************************************)
(* build_prompt, lines 133-159.  The result is an outcome whose msg is the *)
(* prompt (kind "ok") or the message of the ValueError.                    *)
(***************************************************************************)
\* A build_prompt that tests "ref_text is None" instead of "not ref_text".
build_prompt_NoneOnly(task_type, ref_text) ==
    IF task_type \notin DOMAIN TASK_PROMPTS
      THEN Raise("ValueError", <<MsgInvalidTask, task_type>>)
    ELSE IF task_type = "locate"
      THEN IF ref_text = NoRef
             THEN Raise("ValueError", <<MsgRefRequired>>)
             ELSE Outcome("ok",
                          [i \in DOMAIN TASK_PROMPTS[task_type] |->
                             IF TASK_PROMPTS[task_type][i] = RefSlot
                               THEN ref_text[1]
                               ELSE TASK_PROMPTS[task_type][i]],
                          NoneH, NoneH)
    ELSE Outcome("ok", TASK_PROMPTS[task_type], NoneH, NoneH)

build_prompt(task_type, ref_text) ==
    IF task_type \notin DOMAIN TASK_PROMPTS
      THEN Raise("ValueError", <<MsgInvalidTask, task_type>>)
    ELSE IF task_type = "locate"
      THEN IF Falsy(ref_text)
             THEN Raise("ValueError", <<MsgRefRequired>>)
             ELSE Outcome("ok",
                          [i \in DOMAIN TASK_PROMPTS[task_type] |->
                             IF TASK_PROMPTS[task_type][i] = RefSlot
                               THEN ref_text[1]
                               ELSE TASK_PROMPTS[task_type][i]],
                          NoneH, NoneH)
    ELSE Outcome("ok", TASK_PROMPTS[task_type], NoneH, NoneH)

(***************************************************************************)
(* get_model_config, lines 162-179.                                        *)
(***************************************************************************)
ValidSize(model_size) == model_size \in DOMAIN SIZE_CONFIGS
get_model_config(model_size) == SIZE_CONFIGS[model_size]

(***************************************************************************)
(* Images.  An image object is its colour mode, its size, the text the     *)
(* model reads in it, and the rectangles drawn on it so far.  NotAnImage   *)
(* is any value that is no PIL image.                                      *)
(***************************************************************************)
Img(mode, w, h, text) ==
    [isImage |-> TRUE, mode |-> mode, w |-> w, h |-> h, text |-> text, drawn |-> <<>>]
NotAnImage ==
    [isImage |-> FALSE, mode |-> "", w |-> 0, h |-> 0, text |-> <<>>, drawn |-> <<>>]

Abs(x) == IF x < 0 THEN -x ELSE x
Max(a, b) == IF a >= b THEN a ELSE b
Min(a, b) == IF a <= b THEN a ELSE b
Ceil(num, den) == IF num % den = 0 THEN num \div den ELSE (num \div den) + 1

(***************************************************************************)
(* PIL's Image.thumbnail((max_size, max_size)), called at line 208: the    *)
(* size the image is reduced to, keeping its aspect ratio.  Nothing        *)
(* changes when the image already fits.  Otherwise the free dimension is   *)
(* the floor or the ceiling of its exact value, whichever keeps the aspect *)
(* ratio closer (the floor on a tie), and at least 1.                      *)
(***************************************************************************)
ThumbnailSize(w, h, max_size) ==
    IF max_size >= w /\ max_size >= h THEN <<w, h>>
    ELSE IF h >= w
      THEN LET f == (max_size * w) \div h
               c == Ceil(max_size * w, h)
               x == IF Abs(w * max_size - f * h) <= Abs(w * max_size - c * h)
                      THEN f ELSE c
           IN  <<Max(x, 1), max_size>>
      ELSE LET f == (max_size * h) \div w
               c == Ceil(max_size * h, w)
               y == IF f = 0 \/ Abs(w * f - max_size * h) * c
                                  <= Abs(w * c - max_size * h) * f
                      THEN f ELSE c
           IN  <<max_size, Max(y, 1)>>

(***************************************************************************)
(* preprocess_image, lines 196-210, for an image and a valid size.  The    *)
(* result is the pair of the image returned and of the caller's image      *)
(* object afterwards: convert() makes a new object, thumbnail() resizes    *)
(* the object it is called on.                                             *)
(***************************************************************************)
Resized(image, max_size) ==
    LET sz == ThumbnailSize(image.w, image.h, max_size)
    IN  [image EXCEPT !.w = sz[1], !.h = sz[2]]

\* A preprocess_image that calls resize((max_size, max_size)), which
\* returns a new image of exactly that size, instead of thumbnail().
preprocess_image_Resizes(image, model_size) ==
    LET max_size == get_model_config(model_size).image_size
    IN  <<[image EXCEPT !.mode = "RGB", !.w = max_size, !.h = max_size], image>>

preprocess_image(image, model_size) ==
    LET max_size == get_model_config(model_size).image_size
    IN  IF image.mode # "RGB"
          THEN <<Resized([image EXCEPT !.mode = "RGB"], max_size), image>>
          ELSE <<Resized(image, max_size), Resized(image, max_size)>>

(***************************************************************************)
(* extract_bounding_boxes, lines 347-390.  A text is the sequence of its   *)
(* candidate tags, a tag the sequence of its coordinate strings.  A        *)
(* coordinate string is a decimal number (class "num", value v/Den), a     *)
(* string of digits and dots that float() rejects, such as "1.2.3" (class  *)
(* "dots"), or a string with a character outside [\d.], such as "-0.5"     *)
(* (class "neg").                                                          *)
(***************************************************************************)
Num(k) == [cls |-> "num", v |-> k]
Dots == [cls |-> "dots", v |-> 0]
Neg == [cls |-> "neg", v |-> 0]

\* Line 351-352: the tag matches the pattern.
MatchesPattern(tag) ==
    Len(tag) = 4 /\ \A i \in 1..4 : tag[i].cls \in {"num", "dots"}

\* Lines 362-365: the four float() calls succeed.
Parses(tag) == \A i \in 1..4 : tag[i].cls = "num"

\* Line 368: all four are within [0, 1].
InRange(tag) == \A i \in 1..4 : 0 <= tag[i].v /\ tag[i].v <= Den

\* Lines 379-382: max(0, min(x, dimension)), in units of 1/Den pixel.
Clamp(x, dim) == Max(0, Min(x, Den * dim))

\* Lines 373-384.
ScaleBox(tag, width, height) ==
    <<Clamp(tag[1].v * width, width), Clamp(tag[2].v * height, height),
      Clamp(tag[3].v * width, width), Clamp(tag[4].v * height, height)>>

\* A loop without the range test of line 368.
KeepsTag_ParsesOnly(tag) == Parses(tag)

\* Lines 359-388: a tag is kept when it parses and is in range.
KeepsTag(tag) == Parses(tag) /\ InRange(tag)

extract_bounding_boxes(text, image_size) ==
    LET matches == SelectSeq(text, MatchesPattern)
        kept == SelectSeq(matches, KeepsTag)
    IN  [i \in 1..Len(kept) |-> ScaleBox(kept[i], image_size[1], image_size[2])]

(***************************************************************************)
(* draw_bounding_boxes, lines 411-433: the image object it was given,      *)
(* with the boxes of positive width and height drawn on it.                *)
(***************************************************************************)
Drawable(bbox) == ~(bbox[3] <= bbox[1] \/ bbox[4] <= bbox[2])

draw_bounding_boxes(image, bboxes) ==
    IF bboxes = <<>> THEN image
    ELSE [image EXCEPT !.drawn = image.drawn \o SelectSeq(bboxes, Drawable)]


(***************************************************************************)
(* run_inference, lines 213-329, run by the request handler.               *)
(***************************************************************************)
MsgInferOOM == "GPU out of memory during inference. Try using a smaller model size."
MsgInferFailed == "Inference failed"
MsgModelInferFailed == "Model inference failed"

NoReq ==
    [image |-> NotAnImage, model_size |-> "", task_type |-> "",
     ref_text |-> NoRef, timeout |-> 0]
\* annotated_image is <<>> for None and <<image>> for an image.
Result(text, bboxes, annotated) ==
    [text |-> text, bounding_boxes |-> bboxes, annotated_image |-> annotated]
NoRes == Result(<<>>, <<>>, <<>>)

\* The except clauses of lines 318-329, for an exception e raised in the try.
RiExcept(e) ==
    IF e.kind = "OutOfMemoryError"
      THEN Raise("OutOfMemoryError", Wrap(MsgInferOOM, e.msg))
    ELSE IF e.kind = "ValueError" THEN e
    ELSE Raise("RuntimeError", Wrap(MsgInferFailed, e.msg))

\* Line 320: the clause of line 318 is the only one that empties the cache.
EmptiedBy(e) == IF e.kind = "OutOfMemoryError" THEN 1 ELSE 0

\* run_inference ends: with exception e, or with the result in res.
RiEnd(p, o) ==
    /\ pc' = [pc EXCEPT ![p] = "done"]
    /\ ret' = [ret EXCEPT ![p] = o]
    /\ UNCHANGED <<op, entry>>

\* The caller passes one of the requests of the set rs.
CallRunInference(p, rs) ==
    /\ p = Handler
    /\ Begin(p, "run_inference", "ri_valid")
    /\ \E r \in rs :
         /\ req' = r
         /\ img' = r.image
    /\ UNCHANGED <<mgr, nLoads, ret, res, elapsed, nEmpty, out>>

\* Lines 244-245: the image must be a PIL image.  Then line 248 calls
\* ModelManager.get_model().
RiValid(p) ==
    /\ pc[p] = "ri_valid"
    /\ IF ~img.isImage
         THEN RiEnd(p, RiExcept(Raise("ValueError", <<MsgInvalidImage>>)))
         ELSE /\ Goto(p, "gm_check")
              /\ UNCHANGED ret
    /\ UNCHANGED <<mgr, nLoads, hvars>>

\* Line 248: get_model() has returned the handles (kept in ret) or raised.
RiGot(p) ==
    /\ pc[p] = "ri_got"
    /\ IF ret[p].kind = "ok"
         THEN /\ Goto(p, "ri_prep")
              /\ UNCHANGED <<ret, nEmpty>>
         ELSE /\ RiEnd(p, RiExcept(ret[p]))
              /\ nEmpty' = nEmpty + EmptiedBy(ret[p])
    /\ UNCHANGED <<mgr, nLoads, req, img, res, elapsed, out>>

\* Lines 251-260: preprocess_image (which calls get_model_config), then
\* build_prompt, get_model_config and torch.cuda.empty_cache().
RiPrep(p) ==
    /\ pc[p] = "ri_prep"
    /\ IF ~ValidSize(req.model_size)
         THEN /\ RiEnd(p, RiExcept(Raise("ValueError", <<MsgInvalidSize, req.model_size>>)))
              /\ UNCHANGED <<img, nEmpty>>
         ELSE /\ img' = preprocess_image(img, req.model_size)[2]
              /\ IF build_prompt(req.task_type, req.ref_text).kind # "ok"
                   THEN /\ RiEnd(p, RiExcept(build_prompt(req.task_type, req.ref_text)))
                        /\ UNCHANGED nEmpty
                   ELSE /\ Goto(p, "ri_infer")
                        /\ nEmpty' = nEmpty + 1
                        /\ UNCHANGED ret
    /\ UNCHANGED <<mgr, nLoads, req, res, elapsed, out>>

\* A result that holds an annotated image only when a box was drawn.
MakeResult_AnnotatesDrawn(image, response) ==
    LET bboxes == extract_bounding_boxes(response, <<image.w, image.h>>)
    IN  IF SelectSeq(bboxes, Drawable) # <<>>
          THEN Result(response, bboxes, <<draw_bounding_boxes(image, bboxes)>>)
          ELSE Result(response, bboxes, <<>>)

\* Lines 296-316: the result dictionary for the response of the model.
\* image is the object the caller passed, image.size its size by now.
MakeResult(image, response) ==
    LET bboxes == extract_bounding_boxes(response, <<image.w, image.h>>)
    IN  IF bboxes # <<>>
          THEN Result(response, bboxes, <<draw_bounding_boxes(image, bboxes)>>)
          ELSE Result(response, <<>>, <<>>)

\* Lines 263-316: model.infer on the saved image, and what follows it.  The
\* timeout argument is read nowhere.  Any exception of the invocation is
\* caught at line 291 and raised again as a RuntimeError, which the clause
\* of line 327 takes; line 314 is reached when the invocation returned.
RiInfer(p) ==
    /\ pc[p] = "ri_infer"
    /\ IF ret[p].m = NoneH
         THEN /\ RiEnd(p, RiExcept(Raise("RuntimeError",
                        <<MsgModelInferFailed, "'NoneType' object has no attribute 'infer'">>)))
              /\ UNCHANGED <<res, elapsed, nEmpty>>
         ELSE \E d \in 1..(MaxTimeout + 1) :
                /\ elapsed' = d
                /\ \/ /\ res' = MakeResult(img, img.text)
                      /\ nEmpty' = nEmpty + 1
                      /\ RiEnd(p, Outcome("ok", <<>>, ret[p].m, ret[p].t))
                   \/ \E cause \in {"cuda_oom", "infer_error"} :
                        /\ RiEnd(p, RiExcept(Raise("RuntimeError",
                                                   <<MsgModelInferFailed, cause>>)))
                        /\ nEmpty' = nEmpty + EmptiedBy(Raise("RuntimeError",
                                                   <<MsgModelInferFailed, cause>>))
                        /\ UNCHANGED res
    /\ UNCHANGED <<mgr, nLoads, req, img, out>>

\* The handler takes the result or the exception.
RiReturn(p) ==
    /\ pc[p] = "done"
    /\ op[p] = "run_inference"
    /\ pc' = [pc EXCEPT ![p] = "idle"]
    /\ op' = [op EXCEPT ![p] = "none"]
    /\ entry' = [entry EXCEPT ![p] = "none"]
    /\ ret' = [ret EXCEPT ![p] = NoRet]
    /\ req' = NoReq
    /\ img' = NotAnImage
    /\ res' = NoRes
    /\ elapsed' = 0
    /\ nEmpty' = 0
    /\ UNCHANGED <<mgr, nLoads, out>>

RunInference(p) ==
    \/ RiValid(p) \/ RiGot(p) \/ RiPrep(p) \/ RiInfer(p) \/ RiReturn(p)

(***************************************************************************)
(* The events of the server, api_server.py.                                *)
(***************************************************************************)
\* Lines 95-101, startup_event: the server pre-loads the model before it
\* serves.  Whatever get_model() raises is caught at line 103 and printed,
\* and the server goes on to serve.
StartupEvent(p) ==
    /\ pc[p] = "boot"
    /\ pc' = [pc EXCEPT ![p] = "gm_check"]
    /\ op' = [op EXCEPT ![p] = "startup"]
    /\ entry' = [entry EXCEPT ![p] = Readiness]
    /\ UNCHANGED <<mgr, nLoads, ret, hvars>>

\* Lines 108-117, shutdown_event: torch.cuda.empty_cache() and nothing
\* else; the class attributes are not touched.  The server serves no more.
ShutdownEvent(p) ==
    /\ pc[p] = "idle"
    /\ pc' = [pc EXCEPT ![p] = "stopped"]
    /\ op' = [op EXCEPT ![p] = "shutdown"]
    /\ entry' = [entry EXCEPT ![p] = Readiness]
    /\ UNCHANGED <<mgr, nLoads, ret, hvars>>

(***************************************************************************)
(* The inputs.                                                             *)
(***************************************************************************)
\* Widths and heights: wider than every profile, taller than the two small
\* profiles, smaller than every profile.
ImageDims == {<<2000, 1000>>, <<600, 800>>, <<100, 50>>}
Modes == {"RGB", "L"}

\* Tags: the whole image, a box inside it, a box of no width, a box with a
\* coordinate above 1, a tag float() rejects, a tag the pattern rejects.
TagWhole == <<Num(0), Num(0), Num(Den), Num(Den)>>
TagInner == <<Num(0), Num(1), Num(1), Num(Den)>>
TagFlat == <<Num(1), Num(0), Num(1), Num(Den)>>
TagOutside == <<Num(0), Num(0), Num(Den + 1), Num(Den)>>
TagDots == <<Num(0), Dots, Num(Den), Num(Den)>>
TagNeg == <<Neg, Num(0), Num(Den), Num(Den)>>
SampleTexts ==
    {<<>>, <<TagInner>>, <<TagFlat>>, <<TagOutside, TagWhole>>,
     <<TagDots, TagNeg, TagInner>>}

Images ==
    {Img(m, d[1], d[2], t) : m \in Modes, d \in ImageDims, t \in SampleTexts}
      \cup {NotAnImage}
SizeNames == DOMAIN SIZE_CONFIGS \cup {"Huge"}

\* The requests of the sequential specifications: every image and size
\* name, with a task without reference text, the task with one, and an
\* unknown task.
Requests ==
    [image : Images, model_size : SizeNames,
     task_type : {"free_ocr", "locate", "translate"},
     ref_text : {NoRef, <<"total">>}, timeout : 1..MaxTimeout]

\* The requests of the concurrent specification: the defaults of
\* chat_completions (lines 189-191) and one invalid value of each argument.
ServerRequests ==
    [image : {Img("RGB", 2000, 1000, <<TagInner>>), NotAnImage},
     model_size : {"Gundam", "Huge"}, task_type : {"free_ocr"},
     ref_text : {NoRef}, timeout : 1..MaxTimeout]

\* The requests chat_completions passes on (lines 161-205): a decoded image,
\* and the size, the task and the reference text of extra_body or their
\* defaults.
ApiRequests ==
    [image : {Img("RGB", 2000, 1000, <<TagInner>>), Img("L", 600, 800, <<>>)},
     model_size : {"Gundam", "Tiny", "Huge"},
     task_type : {"free_ocr", "locate"},
     ref_text : {NoRef, <<"total">>}, timeout : {MaxTimeout}]

\* The arguments of the functions applied on their own.  Task names: the
\* four tasks, an unknown one and the empty string.  Reference texts: None,
\* the empty string, a word, a blank, and a text with braces.
TaskNames == DOMAIN TASK_PROMPTS \cup {"translate", ""}
RefTexts == {NoRef, <<"">>, <<"total">>, <<" ">>, <<"{ref_text}">>}

\* Texts of up to MaxTags candidate tags, in every order.
Tags == {TagWhole, TagInner, TagFlat, TagOutside, TagDots, TagNeg}
Texts == UNION {[1..n -> Tags] : n \in 0..MaxTags}

\* Sizes of the images passed to preprocess_image: those of ImageDims, and
\* sizes around the working dimensions and with extreme aspect ratios,
\* where the rounding of thumbnail() matters.
FnDims ==
    ImageDims \cup {<<1, 1>>, <<513, 512>>, <<640, 641>>, <<1281, 1>>,
                    <<3, 1000>>, <<1000, 3>>, <<1280, 1280>>, <<4000, 3000>>}
FnModes == Modes \cup {"RGBA", "P"}

(***************************************************************************)
(* The functions of model_engine.py applied on their own: p passes the     *)
(* arguments (kept in req), out holds what the call returned, img the      *)
(* image object that was passed, as the call left it.                      *)
(***************************************************************************)
FnNames ==
    {"build_prompt", "preprocess_image", "extract_bounding_boxes",
     "draw_bounding_boxes"}

\* build_prompt(task_type, ref_text), lines 133-159.
ApplyBuildPrompt(p) ==
    /\ Begin(p, "build_prompt", "done")
    /\ \E t \in TaskNames, r \in RefTexts :
         /\ req' = [NoReq EXCEPT !.task_type = t, !.ref_text = r]
         /\ out' = <<build_prompt(t, r)>>
    /\ UNCHANGED <<mgr, nLoads, ret, img, res, elapsed, nEmpty>>

\* preprocess_image(image, model_size), lines 182-210, on an image and one
\* of the five sizes.
ApplyPreprocess(p) ==
    /\ Begin(p, "preprocess_image", "done")
    /\ \E m \in FnModes, d \in FnDims, s \in DOMAIN SIZE_CONFIGS :
         LET image == Img(m, d[1], d[2], <<>>)
         IN  /\ req' = [NoReq EXCEPT !.image = image, !.model_size = s]
             /\ out' = <<preprocess_image(image, s)[1]>>
             /\ img' = preprocess_image(image, s)[2]
    /\ UNCHANGED <<mgr, nLoads, ret, res, elapsed, nEmpty>>

\* preprocess_image again, on the image the first call returned and with
\* the same size.  That image is RGB, so the second call works on the
\* object itself; it is the caller's own object when that was RGB already.
\* out keeps each returned image as it was when its call returned.
ApplyPreprocessAgain(p) ==
    /\ pc[p] = "done" /\ op[p] = "preprocess_image" /\ Len(out) = 1
    /\ LET again == preprocess_image(out[1], req.model_size)
       IN  /\ out' = <<out[1], again[1]>>
           /\ img' = IF req.image.mode = "RGB" THEN again[2] ELSE img
    /\ UNCHANGED <<mgr, nLoads, pc, op, entry, ret, req, res, elapsed, nEmpty>>

\* extract_bounding_boxes(text, image_size), lines 332-390; the text and
\* the size are kept as those of req.image.
ApplyExtract(p) ==
    /\ Begin(p, "extract_bounding_boxes", "done")
    /\ \E text \in Texts, d \in ImageDims :
         /\ req' = [NoReq EXCEPT !.image = Img("RGB", d[1], d[2], text)]
         /\ out' = <<extract_bounding_boxes(text, d)>>
    /\ UNCHANGED <<mgr, nLoads, ret, img, res, elapsed, nEmpty>>

\* The boxes of the tags of an image, in its own pixels.
BoxesIn(image) == extract_bounding_boxes(image.text, <<image.w, image.h>>)

\* draw_bounding_boxes(image, bboxes), lines 393-433, on an image and the
\* boxes of its tags.  The function returns the object it was given (lines
\* 412 and 433), so out and img hold the same object.
ApplyDraw(p) ==
    /\ Begin(p, "draw_bounding_boxes", "done")
    /\ \E text \in Texts, d \in ImageDims :
         LET image == Img("RGB", d[1], d[2], text)
         IN  /\ req' = [NoReq EXCEPT !.image = image]
             /\ out' = <<draw_bounding_boxes(image, BoxesIn(image))>>
             /\ img' = draw_bounding_boxes(image, BoxesIn(image))
    /\ UNCHANGED <<mgr, nLoads, ret, res, elapsed, nEmpty>>

\* The caller takes what the function returned.
FnReturn(p) ==
    /\ pc[p] = "done"
    /\ op[p] \in FnNames
    /\ pc' = [pc EXCEPT ![p] = "idle"]
    /\ op' = [op EXCEPT ![p] = "none"]
    /\ entry' = [entry EXCEPT ![p] = "none"]
    /\ req' = NoReq
    /\ img' = NotAnImage
    /\ out' = <<>>
    /\ UNCHANGED <<mgr, nLoads, ret, res, elapsed, nEmpty>>

(***************************************************************************)
(* Specifications.                                                         *)
(***************************************************************************)
Init ==
    /\ model = NoneH
    /\ tokenizer = NoneH
    /\ loading_error = NoError
    /\ nLoads = 0
    /\ pc = [p \in Procs |-> "idle"]
    /\ op = [p \in Procs |-> "none"]
    /\ entry = [p \in Procs |-> "none"]
    /\ ret = [p \in Procs |-> NoRet]
    /\ req = NoReq
    /\ img = NotAnImage
    /\ res = NoRes
    /\ elapsed = 0
    /\ nEmpty = 0
    /\ out = <<>>

\* One step of process p in the server as it is deployed: nothing in the
\* repository calls clear_cache.
Step(p) ==
    \/ CallGetModel(p)
    \/ GetModel(p)
    \/ IsLoaded(p)
    \/ Return(p)
    \/ CallRunInference(p, ServerRequests)
    \/ RunInference(p)

\* The processes run concurrently.
Next == \E p \in Procs : Step(p)

Spec == Init /\ [][Next]_vars

\* One thread makes its calls one after the other, with every request.
SeqNext ==
    \/ CallGetModel(Handler)
    \/ GetModel(Handler)
    \/ IsLoaded(Handler)
    \/ Return(Handler)
    \/ CallRunInference(Handler, Requests)
    \/ RunInference(Handler)

SeqSpec == Init /\ [][SeqNext]_vars

\* The same thread also calls clear_cache between its calls.
SeqClearNext ==
    \/ SeqNext
    \/ CallClearCache(Handler)
    \/ ClearCache(Handler)

SeqClearSpec == Init /\ [][SeqClearNext]_vars

\* The server process: the startup event, then health checks and requests
\* handled one at a time on the event loop (every handler is an async
\* function that never awaits), then the shutdown event.
ServerInit ==
    /\ model = NoneH
    /\ tokenizer = NoneH
    /\ loading_error = NoError
    /\ nLoads = 0
    /\ pc = [p \in Procs |-> IF p = Handler THEN "boot" ELSE "idle"]
    /\ op = [p \in Procs |-> "none"]
    /\ entry = [p \in Procs |-> "none"]
    /\ ret = [p \in Procs |-> NoRet]
    /\ req = NoReq
    /\ img = NotAnImage
    /\ res = NoRes
    /\ elapsed = 0
    /\ nEmpty = 0
    /\ out = <<>>

ServerNext ==
    \/ StartupEvent(Handler)
    \/ GetModel(Handler)
    \/ Return(Handler)
    \/ IsLoaded(Handler)
    \/ CallRunInference(Handler, ApiRequests)
    \/ RunInference(Handler)
    \/ ShutdownEvent(Handler)

ServerSpec == ServerInit /\ [][ServerNext]_vars

\* One caller applies the functions of the module on their own, to every
\* argument of the input sets.
FnNext ==
    \/ ApplyBuildPrompt(Handler)
    \/ ApplyPreprocess(Handler)
    \/ ApplyPreprocessAgain(Handler)
    \/ ApplyExtract(Handler)
    \/ ApplyDraw(Handler)
    \/ FnReturn(Handler)

FnSpec == Init /\ [][FnNext]_vars

\* The threads call is_loaded() and get_model() concurrently.
HealthNext ==
    \/ \E p \in Procs : IsLoaded(p)
    \/ \E p \in Procs : Return(p)
    \/ \E p \in Procs : CallGetModel(p)
    \/ \E p \in Procs : GetModel(p)

HealthSpec == Init /\ [][HealthNext]_vars

\* The threads call get_model() and clear_cache() concurrently, while the
\* handler runs run_inference.
ClearNext ==
    \/ \E p \in Procs : CallGetModel(p)
    \/ \E p \in Procs : GetModel(p)
    \/ \E p \in Procs : Return(p)
    \/ \E p \in Procs : CallClearCache(p)
    \/ \E p \in Procs : ClearCache(p)
    \/ CallRunInference(Handler, ServerRequests)
    \/ RunInference(Handler)

ClearSpec == Init /\ [][ClearNext]_vars

(***************************************************************************)
(* Properties.                                                             *)
(***************************************************************************)
Last(seq) == seq[Len(seq)]

\* p has finished operation o and holds its outcome.
Finished(p, o) == pc[p] = "done" /\ op[p] = o

\* Two outcomes of get_model agree: the same handles, or a failure both.
SameOutcome(a, b) ==
    \/ a.kind = "ok" /\ b.kind = "ok" /\ a.m = b.m /\ a.t = b.t
    \/ a.kind # "ok" /\ b.kind # "ok"

\* C1: when two or more callers call get_model() concurrently while the
\* manager is Unloaded, the construction is performed once and all of them
\* get the same outcome (the same handles, or the failure).
C1_OneConstructionSameOutcome ==
    LET racers == {p \in Procs : op[p] = "get_model" /\ entry[p] = "Unloaded"}
    IN  Cardinality(racers) >= 2 =>
          /\ nLoads <= 1
          /\ \A p, q \in racers :
               pc[p] = "done" /\ pc[q] = "done" => SameOutcome(ret[p], ret[q])

\* The class of the exception that get_model raised when it cached the
\* message of loading_error (lines 104-113).
CachedKind ==
    IF loading_error[1] = MsgLoadOOM THEN "OutOfMemoryError" ELSE "RuntimeError"

\* C2: a get_model() call made after a failed construction fails with the
\* error kind and the cached reason of the first failure, and loads nothing.
C2_FailureRepeatsSameKind ==
    Finished(Handler, "get_model") /\ entry[Handler] \in FailedStates =>
      /\ ret[Handler].kind = CachedKind
      /\ Tail(ret[Handler].msg) = loading_error
      /\ nLoads = 1

\* The model invocation of the handler's run_inference ran and failed with
\* device-memory exhaustion.
InferOOM ==
    /\ Finished(Handler, "run_inference")
    /\ elapsed > 0
    /\ ret[Handler].kind # "ok"
    /\ Last(ret[Handler].msg) = "cuda_oom"

\* C3: when model.infer fails with device-memory exhaustion, run_inference
\* raises torch.cuda.OutOfMemoryError, not the generic RuntimeError.
C3_InferOOMIsDistinguished ==
    InferOOM => ret[Handler].kind = "OutOfMemoryError"

\* C4: when the model invocation lasts longer than the timeout passed to
\* run_inference, the call ends with a TimeoutError.
C4_TimeoutRaised ==
    Finished(Handler, "run_inference") /\ elapsed > req.timeout =>
      ret[Handler].kind = "TimeoutError"

\* run_inference has returned a result dictionary.
Returned == Finished(Handler, "run_inference") /\ ret[Handler].kind = "ok"

\* A box (in units of 1/Den pixel) lies in a width x height image and has
\* positive width and height.
WellFormed(bbox, width, height) ==
    /\ 0 <= bbox[1] /\ bbox[1] < bbox[3] /\ bbox[3] <= Den * width
    /\ 0 <= bbox[2] /\ bbox[2] < bbox[4] /\ bbox[4] <= Den * height

\* C5: every box returned satisfies 0 <= x1 < x2 <= width and
\* 0 <= y1 < y2 <= height; a box of no width or height is dropped.
C5_BoxesWellFormed ==
    Returned =>
      \A i \in DOMAIN res.bounding_boxes :
        WellFormed(res.bounding_boxes[i], img.w, img.h)

\* The get_model() call of the handler's run_inference failed: the
\* exception carries the message that get_model cached.
AcquireFailed ==
    /\ Finished(Handler, "run_inference")
    /\ ret[Handler].kind \notin {"ok", "ValueError"}
    /\ elapsed = 0
    /\ loading_error # NoError

\* C6: a failed acquisition inside run_inference is reported with the
\* cached reason, and neither as device-memory exhaustion during inference
\* nor as a generic inference failure.
C6_AcquireFailureIsModelUnavailable ==
    AcquireFailed =>
      /\ ret[Handler].msg[1] \notin {MsgInferOOM, MsgInferFailed}
      /\ \E i \in DOMAIN ret[Handler].msg :
           SubSeq(ret[Handler].msg, i, Len(ret[Handler].msg)) = loading_error

\* C7: over any sequence of get_model(), is_loaded() and run_inference()
\* calls the model is constructed at most once: once the manager holds a
\* model, no step changes the handles or begins a construction, and a
\* get_model() call made then returns the handles the manager holds.
C7_ConstructedAtMostOnce ==
    [][/\ nLoads' <= 1
       /\ model # NoneH =>
            /\ model' = model /\ tokenizer' = tokenizer /\ nLoads' = nLoads
            /\ Finished(Handler, "get_model")' /\ entry[Handler] = "Ready" =>
                 ret'[Handler] = Outcome("ok", <<>>, model, tokenizer)]_vars

\* C7's case: a get_model() call made when the manager was Ready returned.
C7_Witness ==
    /\ Finished(Handler, "get_model") /\ entry[Handler] = "Ready"
    /\ ret[Handler].kind = "ok" /\ ret[Handler].m = model /\ nLoads = 1

\* C8: when clear_cache() has run, in whatever state it was called, the
\* manager holds no model, no tokenizer and no cached failure reason; a
\* get_model() call made in that state constructs afresh: it returns the
\* handles of the newest construction or fails with that construction's
\* own error, not with a cached one.
C8_ClearLeavesUnloaded ==
    /\ Finished(Handler, "clear_cache") =>
         /\ ret[Handler].kind = "returned"
         /\ model = NoneH /\ tokenizer = NoneH /\ loading_error = NoError
    /\ Finished(Handler, "get_model") /\ entry[Handler] = "Unloaded" =>
         /\ nLoads >= 1
         /\ IF ret[Handler].kind = "ok"
              THEN ret[Handler].m = nLoads /\ ret[Handler].t = nLoads
              ELSE ret[Handler].msg = loading_error

\* C8's case: clear_cache() was called after a construction that failed
\* with the tokenizer already loaded.
C8_Witness ==
    /\ Finished(Handler, "clear_cache")
    /\ entry[Handler] = "FailedWithTokenizer"
    /\ Readiness = "Unloaded"

\* C9: the boxes returned are the valid tags of the response scaled by the
\* width and height the image had when run_inference was called.
C9_BoxesInOriginalPixels ==
    Returned =>
      res.bounding_boxes =
        extract_bounding_boxes(res.text, <<req.image.w, req.image.h>>)

\* C10: in every result returned by run_inference, annotated_image is
\* present exactly when bounding_boxes is not empty.
C10_AnnotatedIffBoxes ==
    Returned => (res.annotated_image # <<>> <=> res.bounding_boxes # <<>>)

\* C10's cases: a result with boxes and an annotated image, here with a box
\* that draw_bounding_boxes skips.
C10_Witness ==
    /\ Returned
    /\ res.bounding_boxes # <<>>
    /\ res.annotated_image # <<>>
    /\ res.annotated_image[1].drawn = <<>>

\* C11: is_loaded() reports True exactly when the manager holds a model;
\* in whatever state it is called it begins no construction and leaves the
\* model handle, the tokenizer handle and the cached failure reason as
\* they were.
C11_HealthReportsModelOnly ==
    [][\A p \in Procs :
         pc[p] = "idle" /\ op'[p] = "is_loaded" =>
           /\ ret'[p].kind = (IF model # NoneH THEN "True" ELSE "False")
           /\ model' = model /\ tokenizer' = tokenizer
           /\ loading_error' = loading_error
           /\ nLoads' = nLoads]_vars

\* C11's case: the health check answered False while a construction had
\* loaded the tokenizer and not yet the model.
C11_Witness ==
    /\ Finished(Handler, "is_loaded")
    /\ entry[Handler] = "Partial"
    /\ ret[Handler].kind = "False"
    /\ tokenizer # NoneH

\* C12: when the shutdown handler has run with the manager Ready, the
\* model is destroyed: the manager holds neither the model nor the
\* tokenizer handle and is no longer Ready.
C12_ShutdownReleasesModel ==
    pc[Handler] = "stopped" /\ entry[Handler] = "Ready" =>
      /\ Readiness # "Ready"
      /\ model = NoneH /\ tokenizer = NoneH

\* draw_bounding_boxes has returned to the caller that applied it.
Drew == Finished(Handler, "draw_bounding_boxes")

\* C13: draw_bounding_boxes leaves the image object passed to it as it
\* was (with boxes it draws on a copy), and with an empty box list it
\* returns the input image unchanged.
C13_DrawLeavesArgument ==
    Drew =>
      /\ img = req.image
      /\ BoxesIn(req.image) = <<>> => out[1] = req.image

\* build_prompt has returned or raised to the caller that applied it.
Built == Finished(Handler, "build_prompt")

\* C14: build_prompt raises the missing-reference error exactly when the
\* task is 'locate' and ref_text is None or empty; 'locate' with a
\* reference text gives the locate template with that text in its slot,
\* verbatim; each of the other three tasks gives its fixed template
\* whatever ref_text is; any other task name raises the invalid-task error.
C14_BuildPrompt ==
    Built =>
      LET t == req.task_type
          r == req.ref_text
          o == out[1]
          missing == r = NoRef \/ r = <<"">>
      IN  /\ (o.kind = "ValueError" /\ o.msg = <<MsgRefRequired>>)
                <=> (t = "locate" /\ missing)
          /\ t = "locate" /\ ~missing =>
                /\ o.kind = "ok"
                /\ o.msg = <<"<image>\nLocate <|ref|>", r[1], "<|/ref|> in the image.">>
          /\ t \in {"free_ocr", "markdown", "parse_figure"} =>
                o.kind = "ok" /\ o.msg = TASK_PROMPTS[t]
          /\ t \notin {"free_ocr", "markdown", "parse_figure", "locate"} =>
                o.kind = "ValueError" /\ o.msg = <<MsgInvalidTask, t>>

\* C14's case: 'locate' with the empty string as reference text failed.
C14_Witness ==
    /\ Built
    /\ req.task_type = "locate" /\ req.ref_text = <<"">>
    /\ out[1].kind = "ValueError"

\* preprocess_image has returned to the caller that applied it.
Preprocessed == Finished(Handler, "preprocess_image")

\* C15: for every image and each of the five sizes, preprocess_image
\* applied to its own result gives the mode and the dimensions of that
\* result again, and no result is wider or higher than the working
\* dimension of the size or than the image passed.
C15_PreprocessIdempotent ==
    Preprocessed =>
      /\ \A i \in DOMAIN out :
           /\ out[i].w <= SIZE_CONFIGS[req.model_size].image_size
           /\ out[i].h <= SIZE_CONFIGS[req.model_size].image_size
           /\ out[i].w <= req.image.w
           /\ out[i].h <= req.image.h
      /\ Len(out) = 2 =>
           /\ out[2].mode = out[1].mode
           /\ out[2].w = out[1].w
           /\ out[2].h = out[1].h

\* C15's case: a palette image larger than the working dimension was
\* converted and reduced, and preprocessed a second time.
C15_Witness ==
    /\ Preprocessed
    /\ Len(out) = 2
    /\ req.image.mode = "P"
    /\ out[1].mode = "RGB"
    /\ out[1].w < req.image.w

\* C16: when the pre-load of the startup handler failed, the first
\* inference request that follows makes a new construction attempt (the
\* startup's was the first, so this one is at least the second).
C16_LoadedOnFirstRequest ==
    Finished(Handler, "run_inference") /\ entry[Handler] \in FailedStates =>
      nLoads >= 2

\* The handler's request has an unknown size name, an unknown task name,
\* or the task 'locate' without a reference text.
InvalidRequest ==
    \/ req.model_size \notin {"Tiny", "Small", "Base", "Large", "Gundam"}
    \/ req.task_type \notin {"free_ocr", "markdown", "parse_figure", "locate"}
    \/ req.task_type = "locate" /\ req.ref_text \in {NoRef, <<"">>}

\* C17: run_inference validates the image and builds the prompt before it
\* acquires the model: a call with an invalid request, made while the
\* manager is Unloaded, raises the validation error without having called
\* get_model(), so nothing was constructed and the manager is Unloaded
\* still.
C17_ValidationBeforeAcquire ==
    /\ Finished(Handler, "run_inference")
    /\ InvalidRequest
    /\ entry[Handler] = "Unloaded"
    => /\ ret[Handler].kind = "ValueError"
       /\ nLoads = 0
       /\ Readiness = "Unloaded"

\* C18: a run_inference call that reaches the model invocation has
\* emptied the device cache once when the invocation begins, and twice
\* when the call ends, whether the invocation returned, ran out of device
\* memory or failed otherwise.
C18_CacheClearedBeforeAndAfter ==
    /\ pc[Handler] = "ri_infer" => nEmpty = 1
    /\ Finished(Handler, "run_inference") /\ elapsed > 0 => nEmpty = 2

\* extract_bounding_boxes has returned to the caller that applied it.
Extracted == Finished(Handler, "extract_bounding_boxes")

\* A tag of four numbers, each within [0, 1].
ValidTag(tag) ==
    /\ Len(tag) = 4
    /\ \A i \in 1..4 : tag[i].cls = "num" /\ 0 <= tag[i].v /\ tag[i].v <= Den

\* The boxes of the valid tags of a text, in the order of the text: each
\* coordinate times the width or the height (in units of 1/Den pixel).
RECURSIVE ValidBoxes(_, _, _)
ValidBoxes(text, width, height) ==
    IF text = <<>> THEN <<>>
    ELSE (IF ValidTag(Head(text))
            THEN << <<Head(text)[1].v * width, Head(text)[2].v * height,
                      Head(text)[3].v * width, Head(text)[4].v * height>> >>
            ELSE <<>>)
         \o ValidBoxes(Tail(text), width, height)

\* C19: for a text of several tags, extract_bounding_boxes skips every
\* tag with a value outside [0, 1] or that is not a number, without
\* raising, and returns the boxes of the other tags, all of them and in
\* the order of the text.
C19_ExtractSkipsInvalidTags ==
    Extracted =>
      out[1] = ValidBoxes(req.image.text, req.image.w, req.image.h)

\* C19's case: a tag out of range between two valid tags was skipped and
\* the two others were returned.
C19_Witness ==
    /\ Extracted
    /\ req.image.text = <<TagInner, TagOutside, TagWhole>>
    /\ Len(out[1]) = 2

\* C20: in every state that concurrent get_model() calls reach, the
\* manager does not hold a model and a cached loading error together, and
\* when it holds a model it holds a tokenizer.
C20_NeverReadyAndFailed ==
    /\ ~(model # NoneH /\ loading_error # NoError)
    /\ model # NoneH => tokenizer # NoneH

\* The handler's run_inference holds the handles get_model() returned to
\* it and its model invocation has not completed.
InFlight ==
    /\ op[Handler] = "run_inference"
    /\ pc[Handler] \in {"ri_got", "ri_prep", "ri_infer"}
    /\ ret[Handler].kind = "ok"

\* C21: with clear_cache() running concurrently, a get_model() that
\* returns (to its caller or to run_inference) returns a model and a
\* tokenizer, neither of them None; and while an inference is in flight
\* the manager keeps the handles it handed to it.
C21_ClearIsSafeUnderConcurrency ==
    /\ \A p \in Procs :
         /\ \/ Finished(p, "get_model")
            \/ op[p] = "run_inference" /\ pc[p] = "ri_got"
         /\ ret[p].kind = "ok"
         => ret[p].m # NoneH /\ ret[p].t # NoneH
    /\ InFlight => model = ret[Handler].m /\ tokenizer = ret[Handler].t

=============================================================================
